---------------------------- MODULE Spec2Model ----------------------------
(***************************************************************************)
(* A model of the calendar application's core: the Google OAuth token      *)
(* service (GoogleAuthService), the GoogleCalendarSync component that      *)
(* merges the local event collection with the fetched remote events, the   *)
(* Calendar page's event handlers, and the RemindersPanel due-check with   *)
(* its notification dispatch.                                              *)
(*                                                                         *)
(* JavaScript strings are modelled as sequences of one-character strings,  *)
(* so that split, substring, trim, toString and parseISO are computed as   *)
(* the code computes them.  Times are milliseconds, as Date.now() gives.   *)
(***************************************************************************)
EXTENDS Integers, Sequences, FiniteSets, TLC

(***************************************************************************)
(* Bounds of the model.                                                    *)
(***************************************************************************)
MaxTicks == 1
MaxFlows == 2
MaxEvents == 2
MaxRemote == 2
MaxReminders == 2
MaxDispatch == 1

(***************************************************************************)
(* Program constants.                                                      *)
(***************************************************************************)
REFRESH_THRESHOLD_MS == 60000
HHMM_LEN == 5
CHECK_INTERVAL_MS == 60000

(* The model's clock advances in steps of 30 s, so that both sides and the *)
(* exact boundary of the 60 s threshold are reached.                       *)
TimeStep == REFRESH_THRESHOLD_MS \div 2

(***************************************************************************)
(* JavaScript values.                                                      *)
(***************************************************************************)
Undefined == <<"undefined">>
EmptyStr == <<>>

Falsy(s) == s = Undefined \/ s = EmptyStr

Min(a, b) == IF a < b THEN a ELSE b

DigitChar == <<"0", "1", "2", "3", "4", "5", "6", "7", "8", "9">>

(* Number.prototype.toString() of a non-negative integer. *)
RECURSIVE NumToString(_)
NumToString(n) ==
  IF n < 10 THEN <<DigitChar[n + 1]>>
  ELSE NumToString(n \div 10) \o <<DigitChar[(n % 10) + 1]>>

(* The index of the first occurrence of character c in s, or 0. *)
IndexOf(s, c) ==
  LET hits == { i \in 1..Len(s) : s[i] = c }
  IN IF hits = {} THEN 0 ELSE CHOOSE i \in hits : \A j \in hits : i <= j

(* String.prototype.split(c) for a one-character separator. *)
RECURSIVE Split(_, _)
Split(s, c) ==
  LET i == IndexOf(s, c) IN
  IF i = 0 THEN <<s>>
  ELSE <<SubSeq(s, 1, i - 1)>> \o Split(SubSeq(s, i + 1, Len(s)), c)

(* String.prototype.substring(a, b), 0 <= a <= b. *)
Substring(s, a, b) == SubSeq(s, a + 1, Min(b, Len(s)))

IsSpace(c) == c = " "

(* String.prototype.trim(). *)
RECURSIVE TrimStart(_)
TrimStart(s) ==
  IF s # <<>> /\ IsSpace(Head(s)) THEN TrimStart(Tail(s)) ELSE s

RECURSIVE TrimEnd(_)
TrimEnd(s) ==
  IF s # <<>> /\ IsSpace(s[Len(s)]) THEN TrimEnd(SubSeq(s, 1, Len(s) - 1)) ELSE s

Trim(s) == TrimEnd(TrimStart(s))

(***************************************************************************)
(* Events (types/index.ts Event) and the remote calendar's events          *)
(* (GoogleEvent).  A remote event is put on the wire from its parts, the   *)
(* way the Calendar API formats start.dateTime and end.dateTime; an        *)
(* all-day event carries start.date and no dateTime.                       *)
(***************************************************************************)
Date_0102 == <<"1", "9", "7", "0", "-", "0", "1", "-", "0", "2">>
Date_0103 == <<"1", "9", "7", "0", "-", "0", "1", "-", "0", "3">>
Time_0900 == <<"0", "9", ":", "0", "0">>
Time_1000 == <<"1", "0", ":", "0", "0">>
Time_1100 == <<"1", "1", ":", "0", "0">>
Time_1430 == <<"1", "4", ":", "3", "0">>
Time_1515 == <<"1", "5", ":", "1", "5">>
SecondsZ == <<":", "0", "0", "Z">>
SecondsOffset == <<":", "0", "0", "+", "0", "5", ":", "3", "0">>

IsoDateTime(date, hhmm, rest) == date \o <<"T">> \o hhmm \o rest

RemoteParts ==
  { [id |-> <<"g", "1">>, summary |-> <<"P">>, description |-> Undefined,
     date |-> Date_0102, startTime |-> Time_1000, endTime |-> Time_1100,
     rest |-> SecondsZ, allDay |-> FALSE],
    [id |-> <<"g", "2">>, summary |-> <<"R">>, description |-> <<"w">>,
     date |-> Date_0103, startTime |-> Time_1430, endTime |-> Time_1515,
     rest |-> SecondsOffset, allDay |-> FALSE],
    [id |-> <<"g", "3">>, summary |-> <<"H">>, description |-> Undefined,
     date |-> Date_0103, startTime |-> Time_0900, endTime |-> Time_1000,
     rest |-> SecondsZ, allDay |-> TRUE] }

Wire(p) ==
  [id |-> p.id, summary |-> p.summary, description |-> p.description,
   start |-> [dateTime |-> IF p.allDay THEN Undefined
                           ELSE IsoDateTime(p.date, p.startTime, p.rest)],
   end |-> [dateTime |-> IF p.allDay THEN Undefined
                         ELSE IsoDateTime(p.date, p.endTime, p.rest)]]

RemoteEvents == { Wire(p) : p \in RemoteParts }

(* The order events.list gives with orderBy=startTime. *)
StartKey(g) ==
  LET p == CHOOSE q \in RemoteParts : Wire(q) = g IN <<p.date, p.startTime, p.id>>

RECURSIVE SeqLess(_, _)
SeqLess(a, b) ==
  IF a = <<>> THEN b # <<>>
  ELSE IF b = <<>> THEN FALSE
  ELSE IF Head(a) = Head(b) THEN SeqLess(Tail(a), Tail(b))
  ELSE LET CharRank(c) == CHOOSE k \in 1..14 :
             <<"+", "-", "0", "1", "2", "3", "4", "5", "6", "7", "8", "9", ":", "g">>[k] = c
       IN CharRank(Head(a)) < CharRank(Head(b))

KeyLess(k1, k2) ==
  \/ SeqLess(k1[1], k2[1])
  \/ k1[1] = k2[1] /\ SeqLess(k1[2], k2[2])
  \/ k1[1] = k2[1] /\ k1[2] = k2[2] /\ SeqLess(k1[3], k2[3])

(* The responses of events.list: event ids are unique within a calendar,   *)
(* and the items come in start-time order.                                 *)
RemoteResponses ==
  { r \in UNION { [1..n -> RemoteEvents] : n \in 0..MaxRemote } :
      \A i, j \in 1..Len(r) : i < j => /\ r[i].id # r[j].id
                                      /\ KeyLess(StartKey(r[i]), StartKey(r[j])) }

(* The body of googleEvents.map(gEvent => ...) in syncCalendar.            *)
(* gEvent.start.dateTime.split('T') throws a TypeError on an event         *)
(* without dateTime, and split('T')[1].substring on one without 'T'.       *)
ConvertThrows(g) ==
  \/ g.start.dateTime = Undefined
  \/ g.end.dateTime = Undefined
  \/ Len(Split(g.start.dateTime, "T")) < 2
  \/ Len(Split(g.end.dateTime, "T")) < 2

ConvertEventBadSubstring(g) ==
  [id |-> g.id,
   title |-> g.summary,
   description |-> IF Falsy(g.description) THEN EmptyStr ELSE g.description,
   date |-> Split(g.start.dateTime, "T")[1],
   startTime |-> Substring(Split(g.start.dateTime, "T")[2], 0, HHMM_LEN + 3),
   endTime |-> Substring(Split(g.end.dateTime, "T")[2], 0, HHMM_LEN + 3),
   googleEventId |-> g.id]

ConvertEvent(g) ==
  [id |-> g.id,
   title |-> g.summary,
   description |-> IF Falsy(g.description) THEN EmptyStr ELSE g.description,
   date |-> Split(g.start.dateTime, "T")[1],
   startTime |-> Substring(Split(g.start.dateTime, "T")[2], 0, HHMM_LEN),
   endTime |-> Substring(Split(g.end.dateTime, "T")[2], 0, HHMM_LEN),
   googleEventId |-> g.id]

(* events.filter(e => !e.googleEventId) *)
KeepAllEvents(L) == L

LocalOnly(L) == SelectSeq(L, LAMBDA e : Falsy(e.googleEventId))

(* [...events.filter(e => !e.googleEventId), ...convertedEvents] *)
MergeEvents(L, R) == LocalOnly(L) \o [i \in 1..Len(R) |-> ConvertEvent(R[i])]


(***************************************************************************)
(* State.                                                                  *)
(*   now            Date.now()                                             *)
(*   clientId       whether VITE_GOOGLE_CLIENT_ID is configured            *)
(*   tokenClient    GoogleAuthService.tokenClient is set                   *)
(*   accessToken    GoogleAuthService.accessToken (0 is null, 1 a token)   *)
(*   tokenExpiry    GoogleAuthService.tokenExpiry (0 is null)              *)
(*   cbOwner        the flow whose promise tokenClient.callback settles    *)
(*                  (0: the callback given to initTokenClient)             *)
(*   orphans        the token requests not yet answered whose caller is    *)
(*                  no longer suspended                                    *)
(*   flows          the suspended asynchronous calls: connect              *)
(*                  (connectGoogleCalendar), sync (syncCalendar, which     *)
(*                  calls getEvents) and add (addEvent)                    *)
(*   isConnected, isLoading, lastSyncTime   GoogleCalendarSync's state     *)
(*   events         the Calendar page's events state                       *)
(*   storeEvents    localStorage events_<user>                             *)
(*   done           history: the call the last step completed, if any      *)
(*   lastSync       history: the sync pass the last step delivered, if any *)
(*   reminders      RemindersPanel's reminders state, as last rendered     *)
(*   storeReminders localStorage reminders_<user>                          *)
(*   timerAt        when the due-check effect last ran and set its interval*)
(*   dispatching    the sendNotification calls suspended at an await       *)
(*   emailConfigured, smsConfigured   the EmailJS and Twilio settings      *)
(*   remLog         history: the collection before the last step, its      *)
(*                  due-check pass and the dispatcher runs it completed,   *)
(*                  if any                                                 *)
(***************************************************************************)
VARIABLES now, clientId, tokenClient, accessToken, tokenExpiry, cbOwner,
          orphans, flows, isConnected, isLoading, lastSyncTime,
          events, storeEvents, done, lastSync,
          reminders, storeReminders, timerAt, dispatching,
          emailConfigured, smsConfigured, remLog

authVars == <<clientId, tokenClient, accessToken, tokenExpiry, cbOwner>>
uiVars == <<isConnected, isLoading, lastSyncTime>>
eventVars == <<events, storeEvents>>
syncVars == <<authVars, orphans, flows, uiVars, eventVars, done, lastSync>>
remVars == <<reminders, storeReminders, timerAt, dispatching,
             emailConfigured, smsConfigured, remLog>>
vars == <<now, syncVars, remVars>>

Slots == 1..MaxFlows

(* expires_in of a token response, in seconds: short-lived tokens, which   *)
(* age within the model's clock, and the provider's usual hour.            *)
ShortExpiresIn == {30, 90}
HourExpiresIn == {3599}

(* lastSyncTime before any sync: null. *)
NoTime == -1

NoSync == [n |-> 0, L |-> <<>>, R |-> <<>>, out |-> <<>>]

NoLog == [op |-> "none", id |-> <<>>, prior |-> <<>>, before |-> <<>>,
          after |-> <<>>, started |-> <<>>, delivered |-> <<>>]

NoDone == [kind |-> "none", result |-> "none", refresh |-> "none", http |-> 0,
           mounted |-> TRUE, held |-> 0, revoked |-> 0]

(* A flow is one call in progress.  mounted tells whether the component    *)
(* instance whose closure runs it is still the mounted one.                *)
Idle == [kind |-> "idle", pc |-> "idle", L |-> <<>>,
         own |-> "none", refresh |-> "none", http |-> 0, mounted |-> TRUE]

NewFlow(kind, L) == [Idle EXCEPT !.kind = kind, !.pc = "start", !.L = L]

(* What the caller of a completed call observed. *)
DoneOf(fl, result) ==
  [NoDone EXCEPT !.kind = fl.kind, !.result = result, !.refresh = fl.refresh,
                 !.http = fl.http, !.mounted = fl.mounted]

FreeSlots == { f \in Slots : flows[f].pc = "idle" }
FreeSlot == CHOOSE f \in FreeSlots : \A g \in FreeSlots : f <= g

(* isAuthenticated(), given the credential and the clock. *)
IsAuthenticated(token, expiry, t) == token # 0 /\ expiry # 0 /\ t < expiry

(* The condition of refreshTokenIfNeeded. *)
NeedsRefresh(expiry, t) == expiry = 0 \/ t >= expiry - REFRESH_THRESHOLD_MS

SyncInit ==
  /\ now = 0
  /\ clientId \in BOOLEAN
  /\ tokenClient = FALSE
  /\ accessToken = 0
  /\ tokenExpiry = 0
  /\ cbOwner = 0
  /\ orphans = 0
  /\ flows = [f \in Slots |-> Idle]
  /\ isConnected = FALSE
  /\ isLoading = FALSE
  /\ lastSyncTime = NoTime
  /\ events = <<>>
  /\ storeEvents = <<>>
  /\ done = NoDone
  /\ lastSync = NoSync

(* The clock advances by step. *)
Tick(step) ==
  /\ now < MaxTicks * step
  /\ now' = now + step
  /\ done' = NoDone
  /\ lastSync' = NoSync
  /\ remLog' = NoLog
  /\ UNCHANGED <<authVars, orphans, flows, uiVars, eventVars>>
  /\ UNCHANGED <<reminders, storeReminders, timerAt, dispatching,
                 emailConfigured, smsConfigured>>

(***************************************************************************)
(* GoogleAuthService.                                                      *)
(***************************************************************************)
(* An init() that goes on to the token client without a client id. *)
InitIgnoringClientId(scriptOk) ==
  IF tokenClient \/ scriptOk THEN "ok" ELSE "script_error"

(* init(): the outcome, given whether the Identity Services script loads. *)
InitResult(scriptOk) ==
  IF tokenClient THEN "ok"
  ELSE IF ~scriptOk THEN "script_error"
  ELSE IF ~clientId THEN "config_error"
  ELSE "ok"

(* Whether getEvents/addEvent go on to the calendar request after the      *)
(* awaited refresh settled with the given outcome.                         *)
ProceedsDespiteFailure(outcome) == TRUE

ProceedsAfterRefresh(outcome) == outcome = "resolved"

(* The flows waiting on a token request made by refreshTokenIfNeeded. *)
RefreshWaiters ==
  { f \in Slots : flows[f].pc = "token_wait" /\ flows[f].kind # "connect" }

(* The token requests not yet answered. *)
OwnPending == { f \in Slots : flows[f].own = "pending" }
PendingRequests == Cardinality(OwnPending) + orphans

(* The synchronous part of requestAccess() for flow record fl: init() if   *)
(* there is no token client, then the callback is replaced and a token     *)
(* request is issued.                                                      *)
RequestAccessFlow(fl, scriptOk) ==
  IF InitResult(scriptOk) = "ok"
  THEN [fl EXCEPT !.pc = "token_wait", !.own = "pending"]
  ELSE [fl EXCEPT !.pc = InitResult(scriptOk)]

(* The synchronous part of getEvents()/addEvent(): refreshTokenIfNeeded,   *)
(* the accessToken check, and the calendar request.                        *)
ServiceCallFlow(fl, scriptOk) ==
  IF NeedsRefresh(tokenExpiry, now)
  THEN LET r == RequestAccessFlow(fl, scriptOk) IN
       IF r.pc = "token_wait" THEN [r EXCEPT !.refresh = "pending"]
       ELSE [r EXCEPT !.refresh = "failed"]
  ELSE IF accessToken = 0
  THEN [fl EXCEPT !.pc = "not_authenticated"]
  ELSE [fl EXCEPT !.pc = "http_wait", !.http = 1]

Suspended(r) == r.pc \in {"token_wait", "http_wait"}

(* The state after the synchronous part of a new call left its flow as r:  *)
(* a suspended call takes a slot, a failed one is over.                    *)
AfterCall(r) ==
  /\ tokenClient' = (tokenClient \/ r.own = "pending")
  /\ cbOwner' = IF r.own = "pending" THEN FreeSlot ELSE cbOwner
  /\ flows' = IF Suspended(r) THEN [flows EXCEPT ![FreeSlot] = r] ELSE flows
  /\ done' = IF Suspended(r) THEN NoDone ELSE DoneOf(r, r.pc)
  /\ lastSync' = NoSync
  /\ UNCHANGED <<clientId, accessToken, tokenExpiry, orphans, remVars>>

(***************************************************************************)
(* GoogleCalendarSync.                                                     *)
(***************************************************************************)
(* connectGoogleCalendar, up to the await of requestAccess(). *)
Connect ==
  /\ ~isConnected /\ ~isLoading
  /\ FreeSlots # {}
  /\ \E scriptOk \in BOOLEAN :
       LET fl == NewFlow("connect", <<>>)
           r == IF ~clientId THEN [fl EXCEPT !.pc = "config_error"]
                ELSE RequestAccessFlow(fl, scriptOk)
       IN /\ AfterCall(r)
          /\ isLoading' = Suspended(r)
          /\ isConnected' = FALSE
  /\ UNCHANGED <<now, lastSyncTime, eventVars>>

(* syncCalendar ("Sync Now"), up to the first await that suspends it.  The *)
(* user syncs while the collection holds at most MaxEvents events.         *)
SyncNow ==
  /\ isConnected /\ ~isLoading
  /\ FreeSlots # {}
  /\ Len(events) <= MaxEvents
  /\ \E scriptOk \in BOOLEAN :
       LET r == ServiceCallFlow(NewFlow("sync", events), scriptOk)
       IN /\ AfterCall(r)
          /\ isLoading' = Suspended(r)
  /\ UNCHANGED <<now, isConnected, lastSyncTime, eventVars>>

(* A call of the exported service's addEvent(event). *)
AddEventCall ==
  /\ FreeSlots # {}
  /\ \E scriptOk \in BOOLEAN :
       AfterCall(ServiceCallFlow(NewFlow("add", <<>>), scriptOk))
  /\ UNCHANGED <<now, uiVars, eventVars>>

(* The flow record of a getEvents/addEvent call when the requestAccess it  *)
(* awaited settled with outcome, the access token then being token.        *)
AfterRefresh(fl, outcome, token) ==
  LET r == [fl EXCEPT !.refresh = IF outcome = "resolved" THEN "ok" ELSE "failed"]
  IN IF ~ProceedsAfterRefresh(outcome) THEN [r EXCEPT !.pc = "provider_error"]
     ELSE IF token = 0 THEN [r EXCEPT !.pc = "not_authenticated"]
     ELSE [r EXCEPT !.pc = "http_wait", !.http = fl.http + 1]

(* The flow record of connectGoogleCalendar when requestAccess settled. *)
AfterAccess(fl, outcome, token, expiry) ==
  IF outcome = "resolved" /\ IsAuthenticated(token, expiry, now)
  THEN [fl EXCEPT !.pc = "ok"]
  ELSE IF outcome = "resolved" THEN [fl EXCEPT !.pc = "auth_error"]
  ELSE [fl EXCEPT !.pc = "provider_error"]

Settle(fl, outcome, token, expiry) ==
  IF fl.kind = "connect" THEN AfterAccess(fl, outcome, token, expiry)
  ELSE AfterRefresh(fl, outcome, token)

(* The component state after its flow fl went on to r.  The setters of an  *)
(* instance that was unmounted change nothing.  The syncCalendar() that    *)
(* connectGoogleCalendar calls after setIsConnected(true) is the closure   *)
(* of the render in which isConnected was false: it returns at once.       *)
UiAfterSettle(fl, r) ==
  /\ isConnected' = IF fl.kind = "connect" /\ fl.mounted
                    THEN r.pc = "ok"
                    ELSE isConnected
  /\ isLoading' = IF fl.kind \in {"connect", "sync"} /\ ~Suspended(r) /\ fl.mounted
                  THEN FALSE
                  ELSE isLoading
  /\ UNCHANGED lastSyncTime

(* accessToken, or tokenExpiry, after the provider's response went to the  *)
(* callback: a token response sets it, an error response leaves it.        *)
CredentialLostOnError(outcome, value, new) ==
  IF outcome = "token" THEN new ELSE IF outcome = "error" THEN 0 ELSE value

CredentialAfterResponse(outcome, value, new) ==
  IF outcome = "token" THEN new ELSE value

(* The provider answers a token request: the one flow src issued, or for   *)
(* src = 0 one whose caller is no longer suspended.  A token or an error   *)
(* response goes to tokenClient.callback, which is the callback of the     *)
(* latest requestAccess; a closed or blocked popup goes to the             *)
(* error_callback given to initTokenClient, which settles no promise.      *)
TokenResponse(Outcomes, Exps) ==
  \E src \in OwnPending \cup {0}, outcome \in Outcomes, exp \in Exps :
    /\ src = 0 => orphans > 0
    /\ LET answered == IF src = 0 THEN flows
                       ELSE [flows EXCEPT ![src].own = outcome]
           token == CredentialAfterResponse(outcome, accessToken, 1)
           expiry == CredentialAfterResponse(outcome, tokenExpiry, now + exp * 1000)
           settles == /\ outcome # "closed"
                      /\ cbOwner # 0
                      /\ answered[cbOwner].pc = "token_wait"
           fl == answered[cbOwner]
           r == Settle(fl, IF outcome = "token" THEN "resolved" ELSE "rejected",
                       token, expiry)
           over == settles /\ ~Suspended(r)
       IN /\ accessToken' = token
          /\ tokenExpiry' = expiry
          /\ orphans' = orphans - (IF src = 0 THEN 1 ELSE 0)
                                + (IF over /\ fl.own = "pending" THEN 1 ELSE 0)
          /\ IF settles
             THEN /\ flows' = [answered EXCEPT ![cbOwner] = IF over THEN Idle ELSE r]
                  /\ UiAfterSettle(fl, r)
                  /\ done' = IF over THEN DoneOf(r, r.pc) ELSE NoDone
             ELSE /\ flows' = answered
                  /\ done' = NoDone
                  /\ UNCHANGED uiVars
    /\ lastSync' = NoSync
    /\ UNCHANGED <<now, clientId, tokenClient, cbOwner, eventVars, remVars>>

(* accessToken and tokenExpiry after the calendar answered a request. *)
CredentialKept(outcome, value) == value

CredentialAfter(outcome, value) == IF outcome = "unauthorized" THEN 0 ELSE value

(* isConnected after syncCalendar ended with result. *)
ConnectedAfterSync(result, connected) ==
  IF result = "auth_expired" THEN FALSE ELSE connected

(* The page's collection after a pass ended with result: onEventsUpdate is *)
(* reached only when the fetch and every conversion went through.          *)
EventsReplacedOnFailure(result, merged, current) ==
  IF result = "ok" THEN merged ELSE <<>>

EventsAfterSync(result, merged, current) ==
  IF result = "ok" THEN merged ELSE current

(* The calendar answers the request of flow f: the rest of getEvents or    *)
(* addEvent, and for a sync the rest of syncCalendar.  onEventsUpdate is   *)
(* the page's setEvents, which outlives the component instance.            *)
HttpResponse(Responses) ==
  \E f \in Slots, outcome \in {"ok", "unauthorized", "error"}, R \in Responses :
    LET fl == flows[f]
        throws == \E i \in 1..Len(R) : ConvertThrows(R[i])
        result == IF outcome = "unauthorized" THEN "auth_expired"
                  ELSE IF outcome = "error" THEN "remote_error"
                  ELSE IF fl.kind = "sync" /\ throws THEN "convert_error"
                  ELSE "ok"
        merged == MergeEvents(fl.L, R)
    IN
    /\ fl.pc = "http_wait"
    /\ outcome # "ok" \/ fl.kind = "add" => R = <<>>
    /\ flows' = [flows EXCEPT ![f] = Idle]
    /\ orphans' = orphans + (IF fl.own = "pending" THEN 1 ELSE 0)
    /\ done' = DoneOf(fl, result)
    /\ accessToken' = CredentialAfter(outcome, accessToken)
    /\ tokenExpiry' = CredentialAfter(outcome, tokenExpiry)
    /\ IF fl.kind = "sync"
       THEN /\ isLoading' = IF fl.mounted THEN FALSE ELSE isLoading
            /\ isConnected' = IF fl.mounted
                              THEN ConnectedAfterSync(result, isConnected)
                              ELSE isConnected
            /\ lastSyncTime' = IF result = "ok" /\ fl.mounted
                               THEN now
                               ELSE lastSyncTime
            /\ events' = EventsAfterSync(result, merged, events)
            /\ lastSync' = IF result = "ok"
                           THEN [n |-> 1, L |-> fl.L, R |-> R, out |-> merged]
                           ELSE NoSync
       ELSE /\ lastSync' = NoSync
            /\ UNCHANGED <<isLoading, isConnected, lastSyncTime, events>>
    /\ UNCHANGED <<now, clientId, tokenClient, cbOwner, storeEvents, remVars>>

(* The token logout() hands to google.accounts.oauth2.revoke: it reads     *)
(* this.accessToken after the assignment that cleared it.                  *)
RevokeArgument(tokenBefore, tokenAfter) == tokenAfter

(* disconnectGoogleCalendar, with GoogleAuthService.logout(); done notes   *)
(* the token that was held and the one handed to revoke.                   *)
Disconnect ==
  /\ isConnected
  /\ accessToken' = 0
  /\ tokenExpiry' = 0
  /\ isConnected' = FALSE
  /\ lastSyncTime' = NoTime
  /\ done' = [NoDone EXCEPT !.kind = "logout", !.result = "ok",
                            !.held = accessToken,
                            !.revoked = RevokeArgument(accessToken, 0)]
  /\ lastSync' = NoSync
  /\ UNCHANGED <<now, clientId, tokenClient, cbOwner, orphans, flows,
                 isLoading, eventVars, remVars>>

(* The settings tab is left and opened again: the GoogleCalendarSync       *)
(* instance is unmounted and a new one mounts with its initial state.  Its *)
(* mount effect sets isConnected to isAuthenticated(); the syncCalendar()  *)
(* it then calls is the closure of the first render, in which isConnected  *)
(* is false, and returns at once.  The calls of the old instance go on.    *)
Unmounted(fl) ==
  IF fl.kind \in {"connect", "sync"} THEN [fl EXCEPT !.mounted = FALSE] ELSE fl

Remount ==
  /\ isConnected' = IsAuthenticated(accessToken, tokenExpiry, now)
  /\ isLoading' = FALSE
  /\ lastSyncTime' = NoTime
  /\ flows' = [f \in Slots |-> Unmounted(flows[f])]
  /\ done' = [NoDone EXCEPT !.kind = "mount"]
  /\ lastSync' = NoSync
  /\ UNCHANGED <<now, authVars, orphans, eventVars, remVars>>

(* Navbar.handleLogout: the user record is removed and the router goes to  *)
(* "/", which unmounts the page with its GoogleCalendarSync; the page and   *)
(* the component that mount for the user who logs in next start from their *)
(* initial state.  The module's googleAuthService is not touched; done     *)
(* notes the token it holds.                                               *)
HandleLogout ==
  /\ isConnected' = FALSE
  /\ isLoading' = FALSE
  /\ lastSyncTime' = NoTime
  /\ events' = <<>>
  /\ flows' = [f \in Slots |-> Unmounted(flows[f])]
  /\ done' = [NoDone EXCEPT !.kind = "app_logout", !.held = accessToken]
  /\ lastSync' = NoSync
  /\ UNCHANGED <<now, authVars, orphans, storeEvents, remVars>>

(***************************************************************************)
(* The Calendar page: EventModal.handleSubmit and the event handlers.      *)
(***************************************************************************)
FormTitles == { <<" ", "E", " ">>, <<" ">> }
FormTimes == { <<Time_0900, Time_1000>>, <<Time_1100, Time_1000>> }

(* The form's values as handleSubmit accepts them: all fields filled in    *)
(* and startTime < endTime (the strings are compared).                     *)
FormValid(title, date, startTime, endTime) ==
  /\ ~Falsy(Trim(title)) /\ ~Falsy(date) /\ ~Falsy(startTime) /\ ~Falsy(endTime)
  /\ SeqLess(startTime, endTime)

(* eventData of handleSubmit: it has no googleEventId. *)
EventData(title, date, startTime, endTime, description) ==
  [title |-> Trim(title), date |-> date, startTime |-> startTime,
   endTime |-> endTime, description |-> Trim(description)]

WithId(data, id) ==
  [id |-> id, title |-> data.title, date |-> data.date,
   startTime |-> data.startTime, endTime |-> data.endTime,
   description |-> data.description, googleEventId |-> Undefined]

(* saveEvents(newEvents), a user being logged in. *)
SaveEvents(newEvents) ==
  /\ storeEvents' = newEvents
  /\ events' = newEvents
  /\ done' = NoDone
  /\ lastSync' = NoSync
  /\ UNCHANGED <<now, authVars, orphans, flows, uiVars, remVars>>

(* handleSubmit without editingEvent, then handleAddEvent.  Two            *)
(* submissions of the form fall in different milliseconds: at one point of *)
(* the model's clock Date.now() names one new event.                       *)
HandleAddEvent ==
  /\ Len(events) < MaxEvents
  /\ \A i \in 1..Len(events) : events[i].id # NumToString(now)
  /\ \E title \in FormTitles, times \in FormTimes :
       /\ FormValid(title, Date_0102, times[1], times[2])
       /\ SaveEvents(Append(events,
            WithId(EventData(title, Date_0102, times[1], times[2], EmptyStr),
                   NumToString(now))))

(* handleSubmit editing events[i], then handleUpdateEvent. *)
HandleUpdateEvent ==
  \E i \in 1..Len(events), title \in FormTitles :
    LET old == events[i]
        updated == WithId(EventData(title, old.date, old.startTime, old.endTime,
                                    old.description), old.id)
    IN /\ FormValid(title, old.date, old.startTime, old.endTime)
       /\ SaveEvents([j \in 1..Len(events) |->
                        IF events[j].id = updated.id THEN updated ELSE events[j]])

(* The modal's delete of events[i]: handleDeleteEvent. *)
HandleDeleteEvent ==
  \E i \in 1..Len(events) :
    SaveEvents(SelectSeq(events, LAMBDA e : e.id # events[i].id))

(***************************************************************************)
(* RemindersPanel, ReminderModal and the notification service.             *)
(*                                                                         *)
(* A state update re-renders the panel and re-runs the due-check effect    *)
(* before anything else happens: each handler below includes the render    *)
(* (which sorts the array in place) and the effect's immediate check.      *)
(***************************************************************************)
DigitVal(c) == (CHOOSE k \in 1..10 : DigitChar[k] = c) - 1

RECURSIVE ToNumber(_)
ToNumber(s) ==
  IF s = <<>> THEN 0
  ELSE ToNumber(SubSeq(s, 1, Len(s) - 1)) * 10 + DigitVal(s[Len(s)])

(* Days from 1970-01-01 to the civil date y-m-d. *)
DaysFromCivil(y, m, d) ==
  LET yy == IF m <= 2 THEN y - 1 ELSE y
      era == yy \div 400
      yoe == yy - era * 400
      mp == IF m > 2 THEN m - 3 ELSE m + 9
      doy == (153 * mp + 2) \div 5 + d - 1
      doe == yoe * 365 + yoe \div 4 - yoe \div 100 + doy
  IN era * 146097 + doe - 719468

(* parseISO("YYYY-MM-DDTHH:MM").getTime(), the local zone being UTC. *)
ParseISO(s) ==
  LET parts == Split(s, "T")
      dp == Split(parts[1], "-")
      tp == Split(parts[2], ":")
  IN DaysFromCivil(ToNumber(dp[1]), ToNumber(dp[2]), ToNumber(dp[3])) * 86400000
       + (ToNumber(tp[1]) * 60 + ToNumber(tp[2])) * 60000

(* The dates and times the reminder form is given. *)
Date_0101 == <<"1", "9", "7", "0", "-", "0", "1", "-", "0", "1">>
Time_0000 == <<"0", "0", ":", "0", "0">>
Time_0001 == <<"0", "0", ":", "0", "1">>
Date_1231 == <<"1", "9", "6", "9", "-", "1", "2", "-", "3", "1">>
Time_2359 == <<"2", "3", ":", "5", "9">>
FormReminderDates == { Date_0101 }
FormReminderTimes == { Time_0000, Time_0001 }

(* The date and time of a new reminder: at the clock's start or a minute   *)
(* later, or, the reminder being overdue when it is added, a minute before *)
(* the clock's start.                                                      *)
FormReminderWhen ==
  { <<d, t>> : d \in FormReminderDates, t \in FormReminderTimes }
OverdueWhen == { <<Date_1231, Time_2359>>, <<Date_0101, Time_0000>> }

(* parseISO over the strings `${date}T${time}` of those, computed once. *)
ParsedISO ==
  [s \in { w[1] \o <<"T">> \o w[2] : w \in FormReminderWhen \cup OverdueWhen }
     |-> ParseISO(s)]

(* parseISO(`${reminder.date}T${reminder.time}`) *)
DueAt(r) == ParsedISO[r.date \o <<"T">> \o r.time]

(* date-fns isAfter(date, dateToCompare) *)
IsAfter(a, b) == a > b

(* The condition under which checkReminders dispatches r at time t. *)
DispatchIgnoringSent(r, t) == ~r.isComplete /\ IsAfter(t, DueAt(r))

ShouldDispatch(r, t) ==
  ~r.notificationSent /\ ~r.isComplete /\ IsAfter(t, DueAt(r))

(* updatedReminders of checkReminders. *)
CheckRemindersMarkingAll(rs, t) ==
  [i \in 1..Len(rs) |->
     IF IsAfter(t, DueAt(rs[i])) THEN [rs[i] EXCEPT !.notificationSent = TRUE]
     ELSE rs[i]]

CheckReminders(rs, t) ==
  [i \in 1..Len(rs) |->
     IF ShouldDispatch(rs[i], t) THEN [rs[i] EXCEPT !.notificationSent = TRUE]
     ELSE rs[i]]

(* The comparator of the render's reminders.sort. *)
CompareReminders(a, b) ==
  IF a.isComplete # b.isComplete
  THEN (IF a.isComplete THEN 1 ELSE -1)
  ELSE DueAt(a) - DueAt(b)

(* Array.prototype.sort is stable: x goes before the first element it      *)
(* compares less than.                                                     *)
InsertSorted(sorted, x) ==
  LET before == { i \in 1..Len(sorted) : CompareReminders(x, sorted[i]) < 0 }
      at == IF before = {} THEN Len(sorted) + 1
            ELSE CHOOSE i \in before : \A j \in before : i <= j
  IN SubSeq(sorted, 1, at - 1) \o <<x>> \o SubSeq(sorted, at, Len(sorted))

RECURSIVE SortReminders(_)
SortReminders(rs) ==
  IF rs = <<>> THEN <<>>
  ELSE InsertSorted(SortReminders(SubSeq(rs, 1, Len(rs) - 1)), rs[Len(rs)])

(* JSON.stringify leaves out the properties whose value is undefined, and  *)
(* a property JSON.parse did not find reads as undefined.                  *)
ReminderKeys ==
  <<"id", "title", "date", "time", "description", "isComplete",
    "notificationSent", "emailNotification", "smsNotification", "phoneNumber">>

OptionalKeys == {"description", "phoneNumber"}

StringifyReminder(r) ==
  SelectSeq([k \in 1..Len(ReminderKeys) |-> <<ReminderKeys[k], r[ReminderKeys[k]]>>],
            LAMBDA kv : kv[1] \in OptionalKeys => kv[2] # Undefined)

Property(item, key) ==
  IF \E j \in 1..Len(item) : item[j][1] = key
  THEN item[CHOOSE j \in 1..Len(item) : item[j][1] = key][2]
  ELSE Undefined

ParseReminder(item) ==
  [id |-> Property(item, "id"), title |-> Property(item, "title"),
   date |-> Property(item, "date"), time |-> Property(item, "time"),
   description |-> Property(item, "description"),
   isComplete |-> Property(item, "isComplete"),
   notificationSent |-> Property(item, "notificationSent"),
   emailNotification |-> Property(item, "emailNotification"),
   smsNotification |-> Property(item, "smsNotification"),
   phoneNumber |-> Property(item, "phoneNumber")]

(* localStorage.getItem before any setItem: null. *)
NoItem == [present |-> FALSE, items |-> <<>>]

(* localStorage after saveReminders(newReminders). *)
SavedWithoutLast(newReminders) ==
  [present |-> TRUE,
   items |-> [i \in 1..(Len(newReminders) - 1) |-> StringifyReminder(newReminders[i])]]

Saved(newReminders) ==
  [present |-> TRUE,
   items |-> [i \in 1..Len(newReminders) |-> StringifyReminder(newReminders[i])]]

(* The load effect's JSON.parse(userReminders), if there is an item. *)
Loaded(store) ==
  IF store.present
  THEN [i \in 1..Len(store.items) |-> ParseReminder(store.items[i])]
  ELSE <<>>

(* sendNotification(reminder): the local alert, then the email channel if  *)
(* the reminder asks for it, then the SMS channel if it asks for it and    *)
(* has a phone number, then the toast.                                     *)
LocalOutcomes == {"shown", "not_granted", "throws"}

(* The outcomes of the local alerts of a pass that dispatches due. *)
LocalAttempts(due) == IF due = <<>> THEN {"none"} ELSE LocalOutcomes

StartDispatch(r, local) ==
  [rem |-> r, local |-> local,
   email |-> IF r.emailNotification THEN "pending" ELSE "off",
   sms |-> IF r.smsNotification /\ ~Falsy(r.phoneNumber) THEN "pending" ELSE "off",
   emailSent |-> "none", smsSent |-> "none"]

(* Where a dispatcher run stands: awaiting the email channel, awaiting the *)
(* SMS channel, or over.                                                   *)
Stage(d) ==
  IF d.email = "pending" THEN "email"
  ELSE IF d.sms = "pending" THEN "sms"
  ELSE "over"

(* The SMS channel's standing once the email channel ended with outcome. *)
SmsSkippedOnEmailFailure(outcome, sms) == IF outcome = "sent" THEN sms ELSE "off"

SmsAfterEmail(outcome, sms) == sms

(* How sendEmailNotification and sendSMSNotification may end: the send    *)
(* succeeds, the provider fails it, or the configuration guard skips it.   *)
EmailOutcomes == IF emailConfigured THEN {"sent", "failed"} ELSE {"unconfigured"}
SmsOutcomes == IF smsConfigured THEN {"sent", "rejected"} ELSE {"unconfigured"}

(* The boolean sendEmailNotification and sendSMSNotification return, which *)
(* is all sendNotification gets to see: true after a send, false from the  *)
(* configuration guard and from the catch alike.                           *)
ChannelResult(outcome) == IF outcome = "sent" THEN "true" ELSE "false"

Remove(seq, k) == SubSeq(seq, 1, k - 1) \o SubSeq(seq, k + 1, Len(seq))

RemInit ==
  /\ reminders = <<>>
  /\ storeReminders = NoItem
  /\ timerAt = 0
  /\ dispatching = <<>>
  /\ emailConfigured \in BOOLEAN
  /\ smsConfigured \in BOOLEAN
  /\ remLog = NoLog

Init == SyncInit /\ RemInit

(* The effect's checkReminders() over the rendered array mem at the        *)
(* current time, store0 and inflight0 being localStorage and the suspended *)
(* dispatcher runs as the step left them so far.  The pass starts a        *)
(* dispatcher run for each due reminder and, if a flag changed, sets the   *)
(* state and saves; the effect then runs once more over the new array,     *)
(* where nothing is left to dispatch.                                      *)
RunCheck(op, id, mem, store0, inflight0, restart) ==
  \E local \in LocalAttempts(SelectSeq(mem, LAMBDA r : ShouldDispatch(r, now))) :
    LET updated == CheckReminders(mem, now)
        due == SelectSeq(mem, LAMBDA r : ShouldDispatch(r, now))
        changed == \E i \in 1..Len(mem) :
                     updated[i].notificationSent # mem[i].notificationSent
        runs == [k \in 1..Len(due) |-> StartDispatch(due[k], local)]
        after == IF changed THEN SortReminders(updated) ELSE mem
    IN /\ reminders' = after
       /\ storeReminders' = IF changed THEN Saved(updated) ELSE store0
       /\ dispatching' = inflight0 \o SelectSeq(runs, LAMBDA d : Stage(d) # "over")
       /\ timerAt' = IF restart \/ changed THEN now ELSE timerAt
       /\ remLog' = [op |-> op, id |-> id, prior |-> reminders,
                     before |-> mem, after |-> after,
                     started |-> [k \in 1..Len(due) |-> due[k].id],
                     delivered |-> SelectSeq(runs, LAMBDA d : Stage(d) = "over")]
       /\ UNCHANGED <<now, syncVars, emailConfigured, smsConfigured>>

(* The interval's tick: checkReminders() every CHECK_INTERVAL_MS after the *)
(* effect last ran.                                                        *)
IntervalCheck ==
  /\ now > timerAt
  /\ (now - timerAt) % CHECK_INTERVAL_MS = 0
  /\ RunCheck("interval", <<>>, reminders, storeReminders, dispatching, FALSE)

(* A reload whose loaded reminders wait for the interval's first tick. *)
ReloadAwaitsTick ==
  LET mem == SortReminders(Loaded(storeReminders)) IN
  /\ reminders' = mem
  /\ dispatching' = <<>>
  /\ timerAt' = now
  /\ remLog' = [NoLog EXCEPT !.op = "reload", !.prior = reminders,
                              !.before = mem, !.after = mem]
  /\ UNCHANGED <<now, syncVars, storeReminders, emailConfigured, smsConfigured>>

(* The page is loaded anew: the panel mounts with no reminders, the load   *)
(* effect reads localStorage, the check effect runs again for the loaded   *)
(* reminders, and the suspended dispatcher runs are gone.                  *)
Reload ==
  RunCheck("reload", <<>>, SortReminders(Loaded(storeReminders)),
           storeReminders, <<>>, TRUE)

(* saveReminders(newReminders), the render and the effect's check. *)
SaveReminders(op, id, newReminders) ==
  RunCheck(op, id, SortReminders(newReminders), Saved(newReminders),
           dispatching, TRUE)

(* The modal's fields as the user may leave them. *)
FormReminderTitles == { <<"M", " ">>, <<" ">> }
FormChannels ==
  { [email |-> TRUE, sms |-> FALSE, phone |-> EmptyStr],
    [email |-> TRUE, sms |-> TRUE, phone |-> <<"5">>],
    [email |-> FALSE, sms |-> TRUE, phone |-> EmptyStr] }
LocalOnlyChannels == { [email |-> FALSE, sms |-> FALSE, phone |-> EmptyStr] }

(* ReminderModal.handleSubmit accepts the form. *)
ReminderFormValid(title, date, time) ==
  ~Falsy(Trim(title)) /\ ~Falsy(date) /\ ~Falsy(time)

(* reminderData of ReminderModal.handleSubmit, with the id given. *)
ReminderData(id, title, date, time, description, ch) ==
  [id |-> id, title |-> Trim(title), date |-> date, time |-> time,
   description |-> Trim(description),
   isComplete |-> FALSE, notificationSent |-> FALSE,
   emailNotification |-> ch.email, smsNotification |-> ch.sms,
   phoneNumber |-> IF ch.sms THEN ch.phone ELSE Undefined]

(* handleSubmit without editingReminder, then handleAddReminder.  Two      *)
(* submissions of the modal fall into different milliseconds, and the      *)
(* user adds a reminder while fewer than MaxDispatch dispatcher runs are   *)
(* suspended.                                                              *)
HandleAddReminder(When, Channels) ==
  /\ Len(reminders) < MaxReminders
  /\ Len(dispatching) < MaxDispatch
  /\ \A i \in 1..Len(reminders) : reminders[i].id # NumToString(now)
  /\ \E title \in FormReminderTitles, w \in When, ch \in Channels :
       /\ ReminderFormValid(title, w[1], w[2])
       /\ SaveReminders("add", NumToString(now),
            Append(reminders,
                   ReminderData(NumToString(now), title, w[1], w[2], EmptyStr, ch)))

(* { ...reminderData, id: editingReminder.id } of handleSubmit, the modal   *)
(* opened on the reminder old and left with a title, a time and channels.  *)
UpdatedKeepingComplete(old, title, time, ch) ==
  [ReminderData(old.id, title, old.date, time, old.description, ch)
     EXCEPT !.isComplete = old.isComplete]

UpdatedReminder(old, title, time, ch) ==
  ReminderData(old.id, title, old.date, time, old.description, ch)

(* handleSubmit editing reminders[i], then handleUpdateReminder. *)
HandleUpdateReminder(Channels) ==
  \E i \in 1..Len(reminders), title \in FormReminderTitles,
     time \in FormReminderTimes, ch \in Channels :
    LET old == reminders[i]
        updatedReminder == UpdatedReminder(old, title, time, ch)
    IN /\ ReminderFormValid(title, old.date, time)
       /\ SaveReminders("update", old.id,
            [j \in 1..Len(reminders) |->
               IF reminders[j].id = updatedReminder.id THEN updatedReminder
               ELSE reminders[j]])

(* handleDeleteReminder(reminders[i].id) *)
HandleDeleteReminder ==
  \E i \in 1..Len(reminders) :
    SaveReminders("delete", reminders[i].id,
                  SelectSeq(reminders, LAMBDA r : r.id # reminders[i].id))

(* toggleReminderComplete(reminders[i].id) *)
ToggleReminderComplete ==
  \E i \in 1..Len(reminders) :
    SaveReminders("toggle", reminders[i].id,
      [j \in 1..Len(reminders) |->
         IF reminders[j].id = reminders[i].id
         THEN [reminders[j] EXCEPT !.isComplete = ~reminders[j].isComplete]
         ELSE reminders[j]])

(* A suspended dispatcher run goes on after its await: the email channel   *)
(* ends, or the SMS channel ends; a run that is over has shown its toast.  *)
Resume(k, d) ==
  /\ dispatching' = IF Stage(d) = "over" THEN Remove(dispatching, k)
                    ELSE [dispatching EXCEPT ![k] = d]
  /\ remLog' = [NoLog EXCEPT !.delivered = IF Stage(d) = "over" THEN <<d>> ELSE <<>>]
  /\ UNCHANGED <<now, syncVars, reminders, storeReminders, timerAt,
                 emailConfigured, smsConfigured>>

EmailAnswer ==
  \E k \in 1..Len(dispatching), outcome \in EmailOutcomes :
    /\ Stage(dispatching[k]) = "email"
    /\ Resume(k, [dispatching[k] EXCEPT !.email = outcome,
                                        !.emailSent = ChannelResult(outcome),
                                        !.sms = SmsAfterEmail(outcome, @)])

SmsAnswer ==
  \E k \in 1..Len(dispatching), outcome \in SmsOutcomes :
    /\ Stage(dispatching[k]) = "sms"
    /\ Resume(k, [dispatching[k] EXCEPT !.sms = outcome,
                                        !.smsSent = ChannelResult(outcome)])

(***************************************************************************)
(* Specifications.                                                         *)
(*                                                                         *)
(* SpecAuth: the credential lifecycle.  Connect, sync and addEvent calls   *)
(* race with the clock, the provider's answers and disconnect; tokens are  *)
(* short-lived, and the calendar's answers are kept small.                 *)
(*                                                                         *)
(* SpecEvents: the event collection.  The event handlers race with sync    *)
(* passes over every remote response; the token lasts the provider's       *)
(* usual hour, so no refresh falls into the model's clock.                 *)
(*                                                                         *)
(* SpecMount: the sync component's life.  The settings tab is left and    *)
(* opened again while connects and syncs are in flight; the token lasts    *)
(* the hour, longer than the component's life here, and the calendar holds *)
(* one event or none.                                                      *)
(*                                                                         *)
(* SpecDue: the due-check.  The reminder handlers, the interval and        *)
(* reloads of the page race with the clock, which advances by the check    *)
(* interval; the reminders ask for the local alert only, so no dispatcher  *)
(* run stays suspended.                                                    *)
(*                                                                         *)
(* SpecDispatch: the dispatcher.  Reminders with every channel setting     *)
(* are added and fall due, and the suspended dispatcher runs go on as the  *)
(* email and SMS channels end, the providers configured or not.            *)
(***************************************************************************)
SmallResponses == { r \in RemoteResponses : Len(r) = 0 }

AuthNext ==
  \/ Tick(TimeStep)
  \/ Connect
  \/ SyncNow
  \/ AddEventCall
  \/ TokenResponse({"token", "error", "closed"}, ShortExpiresIn)
  \/ HttpResponse(SmallResponses)
  \/ Disconnect

AuthInit == Init /\ emailConfigured /\ smsConfigured

SpecAuth == AuthInit /\ [][AuthNext]_vars

(* SpecAuth with the provider and the calendar answering every request     *)
(* that is waiting for them: a token request ends with a token, an error   *)
(* or the popup being closed, a calendar request with a response.  The     *)
(* user's own steps are under no obligation.                               *)
TokenAnswered(f) ==
  /\ TokenResponse({"token", "error", "closed"}, ShortExpiresIn)
  /\ flows[f].own = "pending"
  /\ flows'[f].own # "pending"

OrphanAnswered ==
  /\ TokenResponse({"token", "error", "closed"}, ShortExpiresIn)
  /\ orphans' < orphans

HttpAnswered(f) ==
  /\ HttpResponse(SmallResponses)
  /\ flows[f].pc = "http_wait"
  /\ flows'[f].pc # "http_wait"

SpecAuthLive ==
  /\ SpecAuth
  /\ \A f \in Slots : WF_vars(TokenAnswered(f)) /\ WF_vars(HttpAnswered(f))
  /\ WF_vars(OrphanAnswered)

EventsNext ==
  \/ Tick(TimeStep)
  \/ Connect
  \/ SyncNow
  \/ TokenResponse({"token"}, HourExpiresIn)
  \/ HttpResponse(RemoteResponses)
  \/ HandleAddEvent
  \/ HandleUpdateEvent
  \/ HandleDeleteEvent

EventsInit == AuthInit /\ clientId

SpecEvents == EventsInit /\ [][EventsNext]_vars

MountResponses ==
  { r \in RemoteResponses : \A i \in 1..Len(r) : r[i].id = <<"g", "1">> }

MountNext ==
  \/ Remount
  \/ HandleLogout
  \/ Connect
  \/ SyncNow
  \/ TokenResponse({"token"}, HourExpiresIn)
  \/ HttpResponse(MountResponses)
  \/ Disconnect

MountInit == AuthInit /\ clientId

SpecMount == MountInit /\ [][MountNext]_vars

DueNext ==
  \/ Tick(CHECK_INTERVAL_MS)
  \/ IntervalCheck
  \/ Reload
  \/ HandleAddReminder(FormReminderWhen, LocalOnlyChannels)
  \/ HandleUpdateReminder(LocalOnlyChannels)
  \/ HandleDeleteReminder
  \/ ToggleReminderComplete

DueInit == AuthInit /\ ~clientId

SpecDue == DueInit /\ [][DueNext]_vars

DispatchNext ==
  \/ Tick(CHECK_INTERVAL_MS)
  \/ IntervalCheck
  \/ HandleAddReminder(OverdueWhen, FormChannels)
  \/ EmailAnswer
  \/ SmsAnswer

DispatchInit == Init /\ ~clientId

SpecDispatch == DispatchInit /\ [][DispatchNext]_vars

(***************************************************************************)
(* Properties of the sync pass (SpecEvents).                               *)
(***************************************************************************)
(* The parts a remote event was put on the wire from. *)
PartsOf(g) == CHOOSE q \in RemoteParts : Wire(q) = g

KeptCount(L) == Cardinality({ i \in 1..Len(L) : Falsy(L[i].googleEventId) })

(* C1: a successful sync pass over the collection L and the fetched        *)
(* sequence R yields exactly the events of L without an external id,       *)
(* unchanged, followed by one event per r in R with id = external id =     *)
(* r.id, title = r.summary, date = the date part of r.start.dateTime and   *)
(* startTime/endTime = the HH:MM parts; no event of L with an external id  *)
(* is kept.                                                                *)
C1_MergeContents ==
  lastSync.n > 0 =>
    LET L == lastSync.L
        R == lastSync.R
        out == lastSync.out
        k == Len(out) - Len(R)
    IN /\ k = KeptCount(L)
       /\ \A i \in 1..Len(L) :
            Falsy(L[i].googleEventId) <=> \E j \in 1..k : out[j] = L[i]
       /\ \A j \in 1..k : \E i \in 1..Len(L) : L[i] = out[j]
       /\ \A j \in 1..Len(R) :
            LET m == out[k + j]
                p == PartsOf(R[j])
            IN /\ m.id = p.id /\ m.googleEventId = p.id
               /\ m.title = p.summary
               /\ m.date = p.date
               /\ m.startTime = p.startTime
               /\ m.endTime = p.endTime

C1_Witness ==
  /\ lastSync.n > 0
  /\ Len(lastSync.R) > 0
  /\ \E i, j \in 1..Len(lastSync.L) :
       /\ Falsy(lastSync.L[i].googleEventId)
       /\ ~Falsy(lastSync.L[j].googleEventId)
  /\ events = lastSync.out

(* C2: merging the output of a sync pass again with the same remote        *)
(* sequence gives the same collection: merge(merge(L,R),R) = merge(L,R).   *)
C2_MergeIdempotent ==
  lastSync.n > 0 => MergeEvents(lastSync.out, lastSync.R) = lastSync.out

(* A second pass against the unchanged remote left the collection as the   *)
(* first pass made it.                                                     *)
C2_Witness ==
  /\ lastSync.n > 0
  /\ Len(lastSync.R) > 0
  /\ KeptCount(lastSync.L) > 0
  /\ lastSync.L = lastSync.out

(* C3: after a successful sync the merged collection has exactly one entry *)
(* per external id of the remote response, and in every event collection   *)
(* reached by create, edit, delete and sync no two events carry the same   *)
(* external id.                                                            *)
C3_UniqueExternalId ==
  /\ \A i, j \in 1..Len(events) :
       i # j /\ ~Falsy(events[i].googleEventId)
         => events[i].googleEventId # events[j].googleEventId
  /\ lastSync.n > 0 =>
       \A r \in 1..Len(lastSync.R) :
         Cardinality({ i \in 1..Len(lastSync.out) :
                         lastSync.out[i].googleEventId = lastSync.R[r].id }) = 1

(* A remote event was edited locally, which drops its external id, and     *)
(* the next pass fetched it again.                                         *)
C3_Witness ==
  /\ lastSync.n > 0
  /\ \E i, j \in 1..Len(events) :
       /\ events[i].id = events[j].id
       /\ Falsy(events[i].googleEventId)
       /\ ~Falsy(events[j].googleEventId)

(***************************************************************************)
(* Properties of the credential lifecycle (SpecAuth).                      *)
(***************************************************************************)
(* The token requests issued by refreshTokenIfNeeded for callers that are  *)
(* still suspended.                                                        *)
RefreshRequests ==
  Cardinality({ f \in Slots : flows[f].kind # "connect" /\ flows[f].own = "pending" })

WithinThreshold ==
  accessToken # 0 /\ tokenExpiry # 0 /\ NeedsRefresh(tokenExpiry, now)

(* C4: while the token is within the refresh threshold and a caller's      *)
(* refresh is in flight, a further concurrent caller issues no further     *)
(* token request: at most one refresh is issued.                           *)
C4_SingleRefresh ==
  [][ WithinThreshold /\ (\E f \in RefreshWaiters : flows[f].own = "pending")
        => RefreshRequests' <= RefreshRequests ]_vars

(* C5: every caller waiting on a refresh completes once the provider has   *)
(* answered: no caller is still waiting after its token request got a      *)
(* token or an error.                                                      *)
C5_WaitersComplete ==
  \A f \in RefreshWaiters : flows[f].own \notin {"token", "error"}

(* C9: getEvents and addEvent issue the calendar request only after the    *)
(* refresh they awaited completed successfully, and none at all when it    *)
(* failed.                                                                 *)
C9_RequestAfterRefresh ==
  /\ \A f \in Slots :
       /\ flows[f].refresh = "pending" => flows[f].http = 0
       /\ flows[f].http > 0 => flows[f].refresh \in {"none", "ok"}
  /\ done.refresh = "failed" => done.http = 0
  /\ done.http > 0 => done.refresh \in {"none", "ok"}

(* One call went on to its calendar request after its refresh, and the     *)
(* refresh of another failed.                                              *)
C9_Witness ==
  /\ done.kind \in {"sync", "add"}
  /\ done.refresh = "failed"
  /\ done.result = "provider_error"
  /\ \E f \in Slots : /\ flows[f].pc = "http_wait"
                      /\ flows[f].refresh = "ok"
                      /\ flows[f].http = 1

(* C10: when the refresh fails the credential is no longer valid, the      *)
(* caller observes the authentication-expired error, and a sync that       *)
(* triggered the refresh ends disconnected.                                *)
C10_RefreshFailureExpires ==
  done.refresh = "failed" =>
    /\ ~IsAuthenticated(accessToken, tokenExpiry, now)
    /\ done.result = "auth_expired"
    /\ done.kind = "sync" => ~isConnected

(***************************************************************************)
(* Properties of the due-check (SpecDue) and of the dispatcher             *)
(* (SpecDispatch).                                                         *)
(***************************************************************************)
Ids(seq) == { seq[k] : k \in 1..Len(seq) }

(* C6: for an incomplete, unsent reminder due at combine(D,T), a due-check *)
(* with now < combine(D,T) leaves notificationSent false and dispatches    *)
(* nothing, and a due-check with now >= combine(D,T), equality included,   *)
(* dispatches it and sets notificationSent.                                *)
C6_DueAtOrAfter ==
  remLog.op # "none" =>
    \A i \in 1..Len(remLog.before) :
      LET r == remLog.before[i]
          a == remLog.after[i]
      IN ~r.isComplete /\ ~r.notificationSent =>
           IF now < DueAt(r)
           THEN ~a.notificationSent /\ r.id \notin Ids(remLog.started)
           ELSE a.notificationSent /\ r.id \in Ids(remLog.started)

(* C7: a reminder whose notificationSent is true keeps it and is not       *)
(* dispatched again by any later due-check (the interval's, the one after  *)
(* a state change, the one after a reload), unless it is edited.           *)
C7_SentStaysSent ==
  [][ \A i \in 1..Len(reminders) :
        /\ reminders[i].notificationSent
        /\ ~(remLog'.op = "update" /\ remLog'.id = reminders[i].id)
        => /\ reminders[i].id \notin Ids(remLog'.started)
           /\ \A j \in 1..Len(reminders') :
                reminders'[j].id = reminders[i].id => reminders'[j].notificationSent
    ]_vars

(* The start-up check after a reload found a reminder past due that had    *)
(* been sent before.                                                       *)
C7_Witness ==
  /\ remLog.op = "reload"
  /\ \E i \in 1..Len(remLog.before) :
       /\ remLog.before[i].notificationSent
       /\ ~remLog.before[i].isComplete
       /\ now > DueAt(remLog.before[i])
       /\ remLog.after[i].notificationSent

Attempted == {"sent", "failed", "rejected", "unconfigured"}

(* C8: whatever the channels' outcomes (the local alert throws, the email  *)
(* send fails, the SMS is rejected), every channel the reminder enables is *)
(* attempted, the due-check pass dispatches every due reminder, and the    *)
(* reminder has notificationSent = true.                                   *)
C8_ChannelFailureIsolated ==
  /\ \A k \in 1..Len(remLog.delivered) :
       LET d == remLog.delivered[k] IN
       /\ d.rem.emailNotification => d.email \in Attempted
       /\ d.rem.smsNotification /\ ~Falsy(d.rem.phoneNumber) => d.sms \in Attempted
       /\ \A j \in 1..Len(reminders) :
            reminders[j].id = d.rem.id => reminders[j].notificationSent
  /\ \A k \in 1..Len(dispatching) :
       \A j \in 1..Len(reminders) :
         reminders[j].id = dispatching[k].rem.id => reminders[j].notificationSent
  /\ remLog.op # "none" =>
       \A i \in 1..Len(remLog.before) :
         LET r == remLog.before[i] IN
         ~r.isComplete /\ ~r.notificationSent /\ now > DueAt(r)
           => r.id \in Ids(remLog.started) /\ remLog.after[i].notificationSent

(* A dispatcher run with every channel enabled ended after the local       *)
(* alert threw, the email send failed and the SMS was rejected.            *)
C8_Witness ==
  \E k \in 1..Len(remLog.delivered) :
    /\ remLog.delivered[k].local = "throws"
    /\ remLog.delivered[k].email = "failed"
    /\ remLog.delivered[k].sms = "rejected"

C12_AuthExpiredDisconnects ==
  done.kind = "sync" /\ done.result = "auth_expired" =>
    /\ ~isConnected
    /\ done.http = 1

(***************************************************************************)
(* Properties of edits to synced events (SpecEvents).                      *)
(***************************************************************************)
(* C13: the remote wins for a synced event.  In the collection a           *)
(* successful pass delivers, every entry that bears the id of an event of  *)
(* the remote response is that event as converted: no locally edited copy  *)
(* of it survives the pass.                                                *)
C13_RemoteWins ==
  lastSync.n > 0 =>
    \A i \in 1..Len(lastSync.out), r \in 1..Len(lastSync.R) :
      lastSync.out[i].id = lastSync.R[r].id
        => lastSync.out[i] = ConvertEvent(lastSync.R[r])

(* C14: in every event collection reached through create, edit, delete    *)
(* and sync no two events share an id; in particular no event without an   *)
(* external id has the id that is another event's external id.             *)
C14_DistinctKeys ==
  \A i, j \in 1..Len(events) :
    i # j => /\ events[i].id # events[j].id
             /\ Falsy(events[i].googleEventId) =>
                  events[i].id # events[j].googleEventId

(***************************************************************************)
(* Properties of edited reminders and of overlapping passes                 *)
(* (SpecDue, SpecDispatch).                                                *)
(***************************************************************************)
(* Reminder r as the step leaves it has the date and time it had. *)
SameDateTime(r) ==
  \A j \in 1..Len(reminders') :
    reminders'[j].id = r.id =>
      reminders'[j].date = r.date /\ reminders'[j].time = r.time

(* C15: at most one dispatch while date and time stay.  No step that       *)
(* leaves the date and time of a reminder with notificationSent = true as  *)
(* they are (a due-check, a toggle, an edit of title or channel settings)  *)
(* sets the flag back to false or dispatches the reminder again.           *)
C15_OnceWhileDateTimeStay ==
  [][ \A i \in 1..Len(reminders) :
        reminders[i].notificationSent /\ SameDateTime(reminders[i])
        => /\ reminders[i].id \notin Ids(remLog'.started)
           /\ \A j \in 1..Len(reminders') :
                reminders'[j].id = reminders[i].id => reminders'[j].notificationSent
    ]_vars

(* C16: a rescheduled reminder fires again.  When an edit changes the date *)
(* or time of a reminder with notificationSent = true, the reminder is     *)
(* saved with the flag false, and the due-check that follows the save      *)
(* dispatches it if the clock is at or after the new date and time, and    *)
(* leaves it unsent, for a later check, if not.                            *)
C16_RescheduledFiresAgain ==
  [][ \A i \in 1..Len(reminders) :
        /\ remLog'.op = "update"
        /\ remLog'.id = reminders[i].id
        /\ reminders[i].notificationSent
        /\ ~SameDateTime(reminders[i])
        => \A k \in 1..Len(remLog'.before) :
             remLog'.before[k].id = reminders[i].id =>
               /\ ~remLog'.before[k].notificationSent
               /\ remLog'.after[k].notificationSent = (now >= DueAt(remLog'.before[k]))
               /\ (remLog'.before[k].id \in Ids(remLog'.started))
                    = (now >= DueAt(remLog'.before[k]))
    ]_vars

(* C17: due-check passes do not overlap.  While a dispatcher run started   *)
(* by an earlier pass is still suspended, no step runs a due-check pass    *)
(* (the interval's tick starts none), and no pass dispatches a reminder    *)
(* that an earlier pass has dispatched already.                            *)
C17_PassesDoNotOverlap ==
  [][ /\ dispatching # <<>> => remLog'.op = "none"
      /\ \A i \in 1..Len(reminders) :
           reminders[i].notificationSent =>
             reminders[i].id \notin Ids(remLog'.started)
    ]_vars

(***************************************************************************)
(* Properties of the sync component's life (SpecMount).                    *)
(***************************************************************************)
(* The sync passes in flight: syncCalendar calls that have not ended. *)
SyncsInFlight == { f \in Slots : flows[f].kind = "sync" /\ flows[f].pc # "idle" }

(* C18: at most one sync pass is in flight at any time; a sync request     *)
(* that arrives while another is in flight does not run beside it.         *)
C18_SingleSync == Cardinality(SyncsInFlight) <= 1

(* C19: a disconnect cancels the sync in flight.  While the component is   *)
(* disconnected and shows no last-sync time, as the disconnect leaves it,  *)
(* the answer to a fetch started earlier is dropped: no step delivers a    *)
(* merged collection or sets the last-sync time.                           *)
C19_DisconnectDiscardsSync ==
  [][ ~isConnected /\ lastSyncTime = NoTime /\ SyncsInFlight # {}
      => /\ lastSync'.n = 0
         /\ events' = events
         /\ lastSyncTime' = NoTime
    ]_vars

(* The sync passes in flight that the mounted instance started. *)
OwnSyncsInFlight == { f \in SyncsInFlight : flows[f].mounted }

(* C20: a sync is triggered on connect and at start-up.  When the mounted  *)
(* instance's connect has succeeded, and when an instance has mounted with *)
(* a valid credential, a sync pass of that instance is under way.          *)
C20_SyncOnConnect ==
  /\ done.kind = "connect" /\ done.result = "ok" /\ done.mounted
       => OwnSyncsInFlight # {}
  /\ done.kind = "mount" /\ isConnected
       => OwnSyncsInFlight # {}

(***************************************************************************)
(* Properties of the store and of the start-up check                       *)
(* (SpecEvents, SpecDue).                                                  *)
(***************************************************************************)
(* C21: after every successful sync pass the stored event collection       *)
(* (localStorage events_<user>) equals the merged collection the pass      *)
(* delivered to the page.                                                  *)
C21_MergeWrittenBack ==
  lastSync.n > 0 => storeEvents = lastSync.out

(* C22: the start-up check.  A reminder of the collection loaded from the  *)
(* store whose date and time have passed, incomplete and unsent, is        *)
(* dispatched and marked sent by the check that runs at start-up, without  *)
(* waiting for the interval's first tick.                                  *)
C22_StartupCheck ==
  remLog.op = "reload" =>
    \A i \in 1..Len(remLog.before) :
      LET r == remLog.before[i] IN
      ~r.isComplete /\ ~r.notificationSent /\ now > DueAt(r)
        => /\ r.id \in Ids(remLog.started)
           /\ remLog.after[i].notificationSent
           /\ reminders[i].notificationSent

(* The page was reloaded with a reminder in the store that had fallen due  *)
(* unsent while the page was away.                                         *)
C22_Witness ==
  /\ remLog.op = "reload"
  /\ \E i \in 1..Len(remLog.before) :
       /\ ~remLog.before[i].notificationSent
       /\ ~remLog.before[i].isComplete
       /\ now > DueAt(remLog.before[i])
       /\ remLog.before[i].id \in Ids(remLog.started)

(***************************************************************************)
(* Properties of failed and repeated authorizations (SpecAuth, SpecMount). *)
(***************************************************************************)
(* C23: a cancelled consent changes nothing.  The step in which            *)
(* requestAccess is rejected, for connectGoogleCalendar or for the refresh *)
(* of a service call, leaves the access token, its expiry and the          *)
(* component's connection state as they were.                              *)
C23_CancelChangesNothing ==
  [][ done'.result = "provider_error"
      => /\ accessToken' = accessToken
         /\ tokenExpiry' = tokenExpiry
         /\ isConnected' = isConnected
    ]_vars

(* The consent for a refresh was cancelled while a credential was held. *)
C23_Witness ==
  /\ done.result = "provider_error"
  /\ done.kind = "sync"
  /\ accessToken # 0
  /\ isConnected

(* C24: logout on disconnect completes, leaves the credential cleared      *)
(* (isAuthenticated() false) and the component disconnected, and hands the *)
(* token that was held to the provider's revoke.                           *)
C24_RevokeClearsAndNotifies ==
  done.kind = "logout" =>
    /\ done.result = "ok"
    /\ accessToken = 0
    /\ tokenExpiry = 0
    /\ ~IsAuthenticated(accessToken, tokenExpiry, now)
    /\ ~isConnected
    /\ done.held # 0 => done.revoked = done.held

(* C25: the stored expiry never decreases.  A step that starts and ends    *)
(* with a credential held (no clear in between) leaves tokenExpiry at      *)
(* least what it was.                                                      *)
C25_ExpiryMonotone ==
  [][ accessToken # 0 /\ tokenExpiry # 0 /\ accessToken' # 0
      => tokenExpiry' >= tokenExpiry
    ]_vars

(***************************************************************************)
(* Properties of the sync's direction and of the configuration             *)
(* (SpecEvents, SpecAuth).                                                 *)
(***************************************************************************)
(* C26: sync is bidirectional.  A successful sync pass has pushed the      *)
(* local events to the calendar: every event of the collection it          *)
(* delivers carries an external id.                                        *)
C26_LocalEventsPushed ==
  lastSync.n > 0 =>
    \A i \in 1..Len(lastSync.out) : ~Falsy(lastSync.out[i].googleEventId)

C28_FlagAfterDispatch ==
  \A k \in 1..Len(dispatching) :
    /\ \A j \in 1..Len(reminders) :
         reminders[j].id = dispatching[k].rem.id => ~reminders[j].notificationSent
    /\ \A j \in 1..Len(Loaded(storeReminders)) :
         Loaded(storeReminders)[j].id = dispatching[k].rem.id
           => ~Loaded(storeReminders)[j].notificationSent

(* The SMS attempt of dispatcher run d has begun: the run awaits the SMS   *)
(* channel, or the channel has ended.                                      *)
SmsBegun(d) == Stage(d) = "sms" \/ d.sms \in {"sent", "rejected", "unconfigured"}

(* C29: the channels are attempted in parallel.  In a dispatcher run whose *)
(* reminder asks for SMS, with a phone number, the SMS attempt has begun   *)
(* even while the email attempt has not completed.                         *)
C29_ChannelsInParallel ==
  \A k \in 1..Len(dispatching) :
    LET d == dispatching[k] IN
    d.email = "pending" /\ d.rem.smsNotification /\ ~Falsy(d.rem.phoneNumber)
      => SmsBegun(d)

(* The dispatcher runs the last step completed and those still suspended. *)
DispatcherRuns ==
  { remLog.delivered[k] : k \in 1..Len(remLog.delivered) }
    \cup { dispatching[k] : k \in 1..Len(dispatching) }

(* C30: channel gating.  The email channel is attempted only if the        *)
(* reminder asks for email, the SMS channel only if it asks for SMS and    *)
(* has a phone number; with the provider's configuration missing the       *)
(* channel ends without a provider request, and what it reports to the     *)
(* dispatcher differs from what a provider failure reports.                *)
C30_ChannelGating ==
  \A d \in DispatcherRuns :
    /\ ~d.rem.emailNotification => d.email = "off" /\ d.emailSent = "none"
    /\ ~(d.rem.smsNotification /\ ~Falsy(d.rem.phoneNumber))
         => d.sms = "off" /\ d.smsSent = "none"
    /\ ~emailConfigured => d.email \in {"off", "pending", "unconfigured"}
    /\ ~smsConfigured => d.sms \in {"off", "pending", "unconfigured"}
    /\ d.email = "unconfigured" => d.emailSent # ChannelResult("failed")
    /\ d.sms = "unconfigured" => d.smsSent # ChannelResult("rejected")

(***************************************************************************)
(* Properties of the refresh threshold and of failed or racing syncs       *)
(* (SpecAuth, SpecEvents).                                                 *)
(***************************************************************************)
(* C31: a service call made while a credential is stored refreshes it      *)
(* exactly when less than REFRESH_THRESHOLD_MS of its lifetime remain;     *)
(* with that much or more remaining, exactly that much included, the call  *)
(* goes on with the token it has.                                          *)
C31_RefreshBelowThreshold ==
  [][ \A f \in Slots :
        /\ flows[f].pc = "idle"
        /\ flows'[f].pc # "idle"
        /\ flows'[f].kind \in {"sync", "add"}
        /\ tokenExpiry # 0
        => (flows'[f].refresh = "pending")
             = (tokenExpiry - now < REFRESH_THRESHOLD_MS)
    ]_vars

(* C32: a local change made while a sync's fetch is in flight survives the *)
(* delivery of the merge.  Of the events without an external id, every one *)
(* the collection holds when the merge arrives (created or edited since    *)
(* the pass began, or untouched) is in the collection afterwards as it     *)
(* was, and none that was deleted since the pass began is back.            *)
C32_LocalChangeSurvivesSync ==
  [][ lastSync'.n > 0 =>
        /\ \A i \in 1..Len(events) :
             Falsy(events[i].googleEventId)
               => \E j \in 1..Len(events') : events'[j] = events[i]
        /\ \A k \in 1..Len(lastSync'.L) :
             /\ Falsy(lastSync'.L[k].googleEventId)
             /\ \A i \in 1..Len(events) : events[i].id # lastSync'.L[k].id
             => \A j \in 1..Len(events') : events'[j].id # lastSync'.L[k].id
    ]_vars

(* C33: a sync pass that fails, by its token refresh, its fetch or the     *)
(* conversion of a remote event without start.dateTime or end.dateTime,    *)
(* leaves the event collection and the last-sync time as they were, and    *)
(* the loading flag of the component that ran it is false afterwards.      *)
C33_FailedSyncChangesNothing ==
  [][ done'.kind = "sync" /\ done'.result # "ok" =>
        /\ events' = events
        /\ lastSyncTime' = lastSyncTime
        /\ done'.mounted => ~isLoading'
    ]_vars

C33_Witness ==
  /\ done.kind = "sync"
  /\ done.result = "convert_error"
  /\ Len(events) > 0
  /\ ~isLoading

(* C34: every connect or sync attempt finishes.  Whenever the loading flag *)
(* is set it is false again later, the provider answering each token       *)
(* request with a token, an error or a closed popup, and the calendar      *)
(* answering each request (SpecAuthLive).                                  *)
C34_AttemptsFinish ==
  isLoading ~> ~isLoading

(***************************************************************************)
(* Properties of the due-check's frame and of reminder edits (SpecDue).    *)
(***************************************************************************)
(* C35: the frame of a due-check pass.  The pass leaves the collection     *)
(* with the same reminders in the same order; a reminder it changed was    *)
(* due, incomplete and unsent and differs only in notificationSent, now    *)
(* true; and a pass of the interval or of a reload writes the store only   *)
(* if it changed a flag.                                                   *)
C35_DueCheckFrame ==
  [][ remLog'.op # "none" =>
        LET b == remLog'.before
            a == remLog'.after
        IN /\ Len(a) = Len(b)
           /\ \A i \in 1..Len(b) :
                /\ a[i] = b[i] \/ a[i] = [b[i] EXCEPT !.notificationSent = TRUE]
                /\ a[i] # b[i] =>
                     /\ ~b[i].isComplete
                     /\ ~b[i].notificationSent
                     /\ now' >= DueAt(b[i])
           /\ remLog'.op \in {"interval", "reload"}
              /\ storeReminders' # storeReminders => a # b
    ]_vars

C35_Witness ==
  /\ remLog.op # "none"
  /\ Len(remLog.before) = 2
  /\ \E i, j \in 1..2 :
       /\ remLog.after[i] # remLog.before[i]
       /\ remLog.before[j].isComplete
       /\ remLog.after[j] = remLog.before[j]
       /\ now > DueAt(remLog.before[j])

(* C36: a completed reminder is not dispatched and not marked sent by a    *)
(* due-check, however long it has been due; and a reminder toggled back to *)
(* incomplete while unsent and past due is dispatched and marked sent by   *)
(* the check that follows the toggle.                                      *)
C36_CompleteNotDispatched ==
  remLog.op # "none" =>
    \A i \in 1..Len(remLog.before) :
      LET r == remLog.before[i] IN
      /\ r.isComplete =>
           /\ r.id \notin Ids(remLog.started)
           /\ remLog.after[i] = r
      /\ /\ remLog.op = "toggle"
         /\ remLog.id = r.id
         /\ ~r.isComplete /\ ~r.notificationSent
         /\ now > DueAt(r)
         => /\ r.id \in Ids(remLog.started)
            /\ remLog.after[i] = [r EXCEPT !.notificationSent = TRUE]

C36_Witness ==
  /\ remLog.op = "toggle"
  /\ \E i \in 1..Len(remLog.before) :
       /\ remLog.before[i].id = remLog.id
       /\ ~remLog.before[i].isComplete
       /\ ~remLog.before[i].notificationSent
       /\ remLog.after[i].notificationSent
       /\ remLog.id \in Ids(remLog.started)

(* C37: after every reminder operation (add, update, delete, toggle, and a *)
(* due-check that marks a reminder sent) the collection stored under the   *)
(* user's reminders key, read back, is the collection in memory.           *)
C37_StoreEqualsMemory ==
  \/ remLog.op \in {"add", "update", "delete", "toggle"}
  \/ remLog.op = "interval" /\ remLog.after # remLog.before
  => Loaded(storeReminders) = reminders

(* C37, up to the order of the stored array: after every reminder          *)
(* operation the stored collection, read back and sorted as the panel      *)
(* sorts what it loads, is the collection in memory, so that every         *)
(* reminder and every field of it is stored as memory has it.              *)
C37_StoreEqualsMemoryAsRendered ==
  \/ remLog.op \in {"add", "update", "delete", "toggle"}
  \/ remLog.op = "interval" /\ remLog.after # remLog.before
  => SortReminders(Loaded(storeReminders)) = reminders

C37_Witness ==
  /\ remLog.op = "toggle"
  /\ Len(reminders) = 2
  /\ Loaded(storeReminders) # reminders
  /\ SortReminders(Loaded(storeReminders)) = reminders

(* C38: saving an edit of a reminder keeps its id and makes it incomplete, *)
(* whatever was changed.  After the save the collection has the ids it had *)
(* and the edited reminder, in memory and in the store, has isComplete     *)
(* false; an edited reminder that is past due is dispatched by the check   *)
(* that follows, although it was completed or sent before.                 *)
C38_EditResetsComplete ==
  remLog.op = "update" =>
    /\ Ids([k \in 1..Len(reminders) |-> reminders[k].id])
         = Ids([k \in 1..Len(remLog.prior) |-> remLog.prior[k].id])
    /\ \E k \in 1..Len(remLog.prior) : remLog.prior[k].id = remLog.id
    /\ \A k \in 1..Len(reminders) :
         reminders[k].id = remLog.id =>
           /\ ~reminders[k].isComplete
           /\ now > DueAt(reminders[k]) =>
                /\ remLog.id \in Ids(remLog.started)
                /\ reminders[k].notificationSent
    /\ \A k \in 1..Len(Loaded(storeReminders)) :
         Loaded(storeReminders)[k].id = remLog.id
           => ~Loaded(storeReminders)[k].isComplete

C38_Witness ==
  /\ remLog.op = "update"
  /\ \E k \in 1..Len(remLog.prior) :
       /\ remLog.prior[k].id = remLog.id
       /\ remLog.prior[k].isComplete
  /\ \E k \in 1..Len(reminders) :
       /\ reminders[k].id = remLog.id
       /\ ~reminders[k].isComplete
       /\ remLog.id \in Ids(remLog.started)

(***************************************************************************)
(* Properties of the application's logout (SpecMount).                     *)
(***************************************************************************)
(* C39: after the application's logout the session holds no usable Google  *)
(* credential: isAuthenticated() is false, so that the component mounted   *)
(* for the user who logs in next is not connected and fetches nothing      *)
(* without a new authorization.                                            *)
C39_LogoutDropsCredential ==
  done.kind = "app_logout" => ~IsAuthenticated(accessToken, tokenExpiry, now)

=============================================================================
